---- MODULE Spec2Model ----
(***************************************************************************)
(* A model of the facial-recognition attendance tracker (src/app.py with   *)
(* src/services/firestore_db.py).  Requests are handled by threads that    *)
(* share the employee store, the attendance store and the two gallery      *)
(* caches; every step of a handler performs the handler's local work up to *)
(* and including one access to shared state.                               *)
(***************************************************************************)
EXTENDS Integers, Sequences, FiniteSets, TLC

(* ------------------------------ bounds --------------------------------- *)
\* Employee documents ever created.
MaxEmp == 2
\* Attendance documents ever created.
MaxAtt == 2
\* The clock runs over the ticks 0..MaxNow.
MaxNow == 4
\* Calls of the Firebase initialisation functions in one run.
MaxCalls == 3

(* --------------------------- input domains ----------------------------- *)
Names == {"alice", "bob"}
\* Face encodings, as points on a line in tenths of a distance unit: 0 and 5
\* are look-alikes (within the tolerance), 12 is far from both.
Faces == {0, 5, 12}
\* What the face encoder finds in a decodable image: a sequence of encodings.
Images == {<<>>} \cup {<<f>> : f \in Faces} \cup {<<f, g>> : f, g \in Faces}
\* A submitted image field: absent, undecodable, or a decodable image.
ImageFields == {[kind |-> "none", faces |-> <<>>], [kind |-> "corrupt", faces |-> <<>>]}
                 \cup {[kind |-> "ok", faces |-> i] : i \in Images}
\* Coordinates are counted in units of 0.00001 degree from the company's
\* coordinates.  A form field that is absent is <<>>, one with value v is <<v>>.
Latitudes == {<<>>, <<0>>, <<1798>>, <<1799>>}
Longitudes == {<<>>, <<0>>, <<1>>}
Actions == {"check_in", "check_out", "bogus"}
\* Local times of day the clock shows, in seconds since midnight
\* (07:59:59, 08:00:00, 08:15:00 and 08:15:01), in the order they pass.
TodSamples == <<28799, 28800, 29700, 29701>>
TicksPerDay == Len(TodSamples)

(* -------------------------- program constants -------------------------- *)
Tolerance == 6
COMPANY_LATITUDE == 0
COMPANY_LONGITUDE == 0
DEBUG_USE_COMPANY_LOCATION == TRUE
early_time == 28800
on_time_limit == 29700

AttSlots == {1, 2}

VARIABLES
    USE_FIRESTORE,               \* backend mode flag
    DATABASE_URL,                \* the SQL database of the SQL backend
    MAX_DISTANCE_METERS,         \* app.config['MAX_DISTANCE_METERS']
    app_debug,                   \* Flask's app.debug
    firebase_admin,              \* firebase_admin._apps and the calls made
    employees,                   \* the employees collection / table
    emp_ids_used,                \* employee ids ever given out
    attendances,                 \* the attendances collection / table
    next_att_id,                 \* next attendance id
    known_face_encodings_cache,  \* global gallery cache: encodings
    known_face_names_cache,      \* global gallery cache: names
    now,                         \* the local clock, in ticks
    req,                         \* the attendance request threads
    adm,                         \* the admin / registration request thread
    scenario                     \* position in the scripted scenario, or the record of the two runs

vars == <<USE_FIRESTORE, DATABASE_URL, MAX_DISTANCE_METERS, app_debug,
          firebase_admin, employees, emp_ids_used, attendances,
          next_att_id, known_face_encodings_cache, known_face_names_cache,
          now, req, adm, scenario>>

store == <<employees, emp_ids_used, attendances, next_att_id>>
gallery == <<known_face_encodings_cache, known_face_names_cache>>
config == <<USE_FIRESTORE, DATABASE_URL, MAX_DISTANCE_METERS, app_debug, firebase_admin>>

(* ------------------------------ helpers -------------------------------- *)
\* pickle.dumps / pickle.loads and base64 encode / decode of an encoding.
pickle_dumps(enc) == <<"pickle", enc>>
pickle_loads(b) == b[2]
b64encode(b) == <<"b64", b>>
b64decode(s) == s[2]

\* The stored form of an encoding: face_encoding_b64 (Firestore) or the
\* PickleType column face_encoding (SQL).
StoredEncoding(enc) ==
    IF USE_FIRESTORE THEN b64encode(pickle_dumps(enc)) ELSE pickle_dumps(enc)

DecodeStored(s) ==
    IF USE_FIRESTORE THEN pickle_loads(b64decode(s)) ELSE pickle_loads(s)

\* get_cambodia_date / time of day of a clock value.
Day(t) == t \div TicksPerDay
TimeOfDay(t) == TodSamples[(t % TicksPerDay) + 1]
\* datetime.isoformat(): the date part, then the time part.
isoformat(t) == <<Day(t), TimeOfDay(t)>>
\* str.startswith(date_iso) on an ISO timestamp.
startswith(iso, date_iso) == iso[1] = date_iso

\* The date of an ISO timestamp and the order of ISO timestamps.
iso_date(iso) == iso[1]
IsoLeq(a, b) == a[1] < b[1] \/ (a[1] = b[1] /\ a[2] <= b[2])

\* Documents of a collection in the order a stream / query returns them.
RECURSIVE SeqById(_)
SeqById(S) ==
    IF S = {} THEN <<>>
    ELSE LET m == CHOOSE e \in S : \A o \in S : e.id <= o.id
         IN  <<m>> \o SeqById(S \ {m})

Abs(x) == IF x < 0 THEN 0 - x ELSE x
face_distance(a, b) == Abs(a - b)

\* A comparison that leaves out the encodings at exactly the tolerance.
compare_faces_strict(known, probe, tolerance) ==
    [i \in 1..Len(known) |-> Abs(known[i] - probe) < tolerance]

\* A comparison with the test turned around.
compare_faces_reversed(known, probe, tolerance) ==
    [i \in 1..Len(known) |-> Abs(known[i] - probe) >= tolerance]

\* face_recognition.compare_faces: one boolean per known encoding.
compare_faces(known, probe, tolerance) ==
    [i \in 1..Len(known) |-> face_distance(known[i], probe) <= tolerance]

\* The index of the last True.
IndexOfLastTrue(matches) ==
    IF \E i \in 1..Len(matches) : matches[i]
    THEN CHOOSE i \in 1..Len(matches) :
             matches[i] /\ \A j \in (i + 1)..Len(matches) : ~matches[j]
    ELSE 0

\* matches.index(True), 0 when True is not in matches.
IndexOfTrue(matches) ==
    IF \E i \in 1..Len(matches) : matches[i]
    THEN CHOOSE i \in 1..Len(matches) :
             matches[i] /\ \A j \in 1..(i - 1) : ~matches[j]
    ELSE 0

\* A loop in which the last probe that matches decides.
MatchIndexLastProbe(known, probes) ==
    LET first(probe) ==
            IF \E i \in 1..Len(known) : Abs(known[i] - probe) <= Tolerance
            THEN CHOOSE i \in 1..Len(known) :
                     /\ Abs(known[i] - probe) <= Tolerance
                     /\ \A j \in 1..(i - 1) : Abs(known[j] - probe) > Tolerance
            ELSE 0
        hits == {m \in 1..Len(probes) : first(probes[m]) # 0}
    IN  IF hits = {} THEN 0
        ELSE first(probes[CHOOSE m \in hits : \A n \in hits : n <= m])

\* The loop over the probe encodings: the index of the gallery entry the
\* first matching probe selects, 0 when no probe matches.
RECURSIVE MatchIndex(_, _)
MatchIndex(known, probes) ==
    IF probes = <<>> THEN 0
    ELSE LET idx == IndexOfTrue(compare_faces(known, Head(probes), Tolerance))
         IN  IF idx # 0 THEN idx ELSE MatchIndex(known, Tail(probes))

\* A distance in the units of the coordinates.
calculate_distance_in_units(lat1, lon1, lat2, lon2) ==
    Abs(lat2 - lat1) + Abs(lon2 - lon1)

\* calculate_distance: the haversine formula at the coordinates above, in
\* metres rounded up (0.0, 1.08, 1999.28, 1999.29, 2000.40 and 2000.40 m).
calculate_distance(lat1, lon1, lat2, lon2) ==
    LET dlat == Abs(lat2 - lat1)
        dlon == Abs(lon2 - lon1)
    IN  CASE dlat = 0 /\ dlon = 0 -> 0
          [] dlat = 0 /\ dlon = 1 -> 2
          [] dlat = 1798 /\ dlon = 0 -> 2000
          [] dlat = 1798 /\ dlon = 1 -> 2000
          [] dlat = 1799 /\ dlon = 0 -> 2001
          [] dlat = 1799 /\ dlon = 1 -> 2001

(* ----------------------- Firebase initialisation ----------------------- *)
\* The service account a call is given or finds: none; the path of a key
\* file; the path of a file that is not a key; the JSON text of a key; a
\* text with 'private_key' that is not a key; any other text.
ServiceAccounts == {"none", "file", "bad_file", "json", "bad_json", "other"}
\* The key file init_firebase_app looks for: absent, a key, not a key.
KeyFiles == {"missing", "file", "bad_file"}

\* init_firebase hands the service account to credentials.Certificate
\* when it is an existing path or a text with 'private_key'.
UsesCertificate(service_account) ==
    service_account \in {"file", "bad_file", "json", "bad_json"}
\* credentials.Certificate raises for a file that is not a key.
CertificateRaises(service_account) == service_account \in {"bad_file", "bad_json"}

\* firebase_admin.initialize_app: registers the default app, or raises
\* ValueError when there is one already.
initialize_app(fa) ==
    [apps |-> TRUE, initialize_app |-> fa.initialize_app + 1,
     raised |-> fa.apps, calls |-> fa.calls]

\* firebase_admin before any call, and after a call that found it
\* initialised.
Untouched(fa) ==
    [apps |-> fa.apps, initialize_app |-> fa.initialize_app, raised |-> FALSE,
     calls |-> fa.calls]

\* An init_firebase without the test of firebase_admin._apps.
init_firebase_unguarded(fa, service_account) ==
    IF UsesCertificate(service_account) /\ CertificateRaises(service_account)
    THEN [Untouched(fa) EXCEPT !.raised = TRUE]
    ELSE initialize_app(fa)

\* services.firebase_vision.init_firebase: firebase_admin after the call;
\* `raised` tells that the call raised.
init_firebase(fa, service_account) ==
    IF fa.apps THEN Untouched(fa)
    ELSE IF UsesCertificate(service_account) /\ CertificateRaises(service_account)
    THEN [Untouched(fa) EXCEPT !.raised = TRUE]
    ELSE initialize_app(fa)

\* A call of function fn with argument arg has returned res; `before`
\* tells whether Firebase was initialised when the call was made.
Called(fa, after, fn, arg, res) ==
    [apps |-> after.apps, initialize_app |-> after.initialize_app, raised |-> FALSE,
     calls |-> Append(fa.calls, [fn |-> fn, arg |-> arg, res |-> res,
                                 before |-> fa.apps,
                                 invoked |-> after.initialize_app # fa.initialize_app])]

FirebaseFrame ==
    UNCHANGED <<USE_FIRESTORE, DATABASE_URL, MAX_DISTANCE_METERS, app_debug,
                store, gallery, now, req, adm>>

\* A call of init_firebase(service_account=...).
InitFirebase(service_account) ==
    /\ Len(firebase_admin.calls) < MaxCalls
    /\ LET after == init_firebase(firebase_admin, service_account)
       IN  firebase_admin' = Called(firebase_admin, after, "init_firebase", service_account,
                                    IF after.raised THEN "raised" ELSE "None")
    /\ FirebaseFrame

\* A call of app.initialize_firebase(); sa is what
\* _find_service_account_path() returns.
InitializeFirebase(sa) ==
    /\ Len(firebase_admin.calls) < MaxCalls
    /\ IF firebase_admin.apps
       THEN firebase_admin' = Called(firebase_admin, firebase_admin,
                                     "initialize_firebase", sa, "True")
       ELSE LET after == init_firebase(firebase_admin, sa)
            IN  firebase_admin' = Called(firebase_admin, after, "initialize_firebase", sa,
                                         IF after.raised THEN "False" ELSE "True")
    /\ FirebaseFrame

\* A call of services.firebase_init.init_firebase_app(); key_file is what
\* is at the service account path in keys/.
InitFirebaseApp(key_file) ==
    /\ Len(firebase_admin.calls) < MaxCalls
    /\ IF firebase_admin.apps
       THEN firebase_admin' = Called(firebase_admin, firebase_admin,
                                     "init_firebase_app", key_file, "True")
       ELSE IF key_file = "missing"
       THEN firebase_admin' = Called(firebase_admin, firebase_admin,
                                     "init_firebase_app", key_file, "False")
       ELSE LET after == init_firebase(firebase_admin, key_file)
            IN  firebase_admin' = Called(firebase_admin, after, "init_firebase_app", key_file,
                                         IF after.raised THEN "False" ELSE "True")
    /\ FirebaseFrame

\* firebase_admin when the application has started: in Firestore mode
\* initialize_firebase() has run once, in SQL mode nothing has.
FirebaseStarted(use_firestore) ==
    [apps |-> use_firestore, initialize_app |-> IF use_firestore THEN 1 ELSE 0,
     raised |-> FALSE, calls |-> <<>>]

(* ------------------------ services/firestore_db ------------------------ *)
\* find_employee_by_name / Employee.query.filter_by(name=...).first():
\* the first employee with that name, as a set of at most one document.
find_employee_by_name(name) ==
    LET found == {e \in employees : e.name = name}
    IN  IF found = {} THEN {} ELSE {SeqById(found)[1]}

get_employee_by_id(employee_id) == {e \in employees : e.id = employee_id}

\* A lookup that leaves out the documents linked by employee id.
attendances_by_name_only(employee_id, date_iso) ==
    {a \in attendances :
        /\ \E e \in {x \in employees : x.id = employee_id} : a.employee_name = e.name
        /\ a.check_in[1] = date_iso}

\* get_attendances_for_employee_on_date: the documents linked by employee id
\* and, for records of older versions, those linked by the employee's name,
\* whose check_in starts with the date.
get_attendances_for_employee_on_date(employee_id, date_iso) ==
    LET by_id == {a \in attendances :
                     a.employee_id = employee_id /\ startswith(a.check_in, date_iso)}
        by_name == {a \in attendances :
                       /\ \E e \in get_employee_by_id(employee_id) :
                              a.employee_name = e.name
                       /\ startswith(a.check_in, date_iso)}
    IN  by_id \cup by_name

\* The SQL branch's query: this employee's rows with a check-in on `today`
\* and no check-out.
sql_open_attendances(employee_id, today) ==
    {a \in attendances :
        /\ a.employee_id = employee_id
        /\ iso_date(a.check_in) = today
        /\ a.check_out = <<>>}

\* A lookup of the open records that does not look at the date.
open_attends_any_day(employee_id, today) ==
    {a \in attendances : a.employee_id = employee_id /\ a.check_out = <<>>}

\* A lookup that takes every record of today for an open one.
attends_today(employee_id, today) ==
    IF USE_FIRESTORE
    THEN get_attendances_for_employee_on_date(employee_id, today)
    ELSE {a \in attendances :
             a.employee_id = employee_id /\ iso_date(a.check_in) = today}

\* The open records the attendance handler finds for an employee today.
open_attends(employee_id, today) ==
    IF USE_FIRESTORE
    THEN {a \in get_attendances_for_employee_on_date(employee_id, today) :
             a.check_out = <<>>}
    ELSE sql_open_attendances(employee_id, today)

\* The first of the open records in descending check_in order; records with
\* equal check_in come in the store's order, which is not specified.
most_recent(open) ==
    {a \in open : \A o \in open : IsoLeq(o.check_in, a.check_in)}

\* add_attendance / Attendance(...): the new document.
add_attendance(id, employee_id, check_in_iso, check_out_iso, status) ==
    [id |-> id, employee_id |-> employee_id, employee_name |-> "",
     check_in |-> check_in_iso, check_out |-> check_out_iso,
     check_in_status |-> status]

\* update_attendance(id, {'check_out': ...}) / att_to_close.check_out = ...
update_attendance(attendance_id, check_out_iso) ==
    {IF a.id = attendance_id THEN [a EXCEPT !.check_out = check_out_iso] ELSE a :
        a \in attendances}

\* A classification that counts the boundaries themselves as Early and Late.
check_in_status_inclusive(t) ==
    IF TimeOfDay(t) <= early_time THEN "Early"
    ELSE IF TimeOfDay(t) >= on_time_limit THEN "Late"
    ELSE "Good"

\* The classification of a check-in by its local time of day.
check_in_status(t) ==
    IF TimeOfDay(t) < early_time THEN "Early"
    ELSE IF TimeOfDay(t) > on_time_limit THEN "Late"
    ELSE "Good"

(* ---------------------- /attendance: attendance() ---------------------- *)
\* A thread with no request: the form fields action, latitude, longitude and
\* image of the request it handles, the handler's locals, and the response.
ReqIdle ==
    [pc |-> "idle", action |-> "", latitude |-> <<>>, longitude |-> <<>>,
     image |-> [kind |-> "none", faces |-> <<>>],
     known_face_encodings |-> <<>>, idx |-> 0,
     matched_name |-> "", eid |-> 0, cambodia_now |-> 0, to_close |-> 0,
     res |-> ""]

\* The request r with its response.
Answered(r, res) ==
    [ReqIdle EXCEPT !.pc = "done", !.action = r.action, !.latitude = r.latitude,
                    !.longitude = r.longitude, !.image = r.image, !.res = res]

Respond(p, res) == req' = [req EXCEPT ![p] = Answered(req[p], res)]

\* Attendance ids still free for a new check_in request.
AttIdsLeft(p) ==
    next_att_id + Cardinality({q \in AttSlots \ {p} :
                                  /\ req[q].action = "check_in"
                                  /\ req[q].pc \notin {"idle", "done"}})
        <= MaxAtt

\* A position that falls back to the company's whenever a coordinate is
\* missing.
ClaimedPositionOrCompany(latitude, longitude) ==
    IF latitude = <<>> \/ longitude = <<>>
    THEN <<COMPANY_LATITUDE, COMPANY_LONGITUDE>>
    ELSE <<latitude[1], longitude[1]>>

\* A geofence that rejects at the limit itself.
too_far_at_limit(distance) == distance >= MAX_DISTANCE_METERS

\* The geofence test: distance > app.config['MAX_DISTANCE_METERS'].
too_far(distance) == distance > MAX_DISTANCE_METERS

\* The claimed position <<latitude, longitude>>, or the company's own when
\* a coordinate is missing and the debug override applies; <<>> when the
\* request is to be rejected.
ClaimedPosition(latitude, longitude) ==
    IF latitude = <<>> \/ longitude = <<>>
    THEN IF app_debug /\ DEBUG_USE_COMPANY_LOCATION
         THEN <<COMPANY_LATITUDE, COMPANY_LONGITUDE>>
         ELSE <<>>
    ELSE <<latitude[1], longitude[1]>>

\* POST /attendance up to the read of known_face_encodings_cache: the
\* position and geofence checks, the image decoding and face encoding, the
\* load of the encodings cache and the comparison of each probe with it.
AttendanceBegin(p, action, latitude, longitude, image) ==
    /\ req[p].pc = "idle"
    /\ action = "check_in" => AttIdsLeft(p)
    /\ LET r == [ReqIdle EXCEPT !.action = action, !.latitude = latitude,
                                !.longitude = longitude, !.image = image]
           position == ClaimedPosition(latitude, longitude)
           idx == MatchIndex(known_face_encodings_cache, image.faces)
           answer(res) == req' = [req EXCEPT ![p] = Answered(r, res)]
       IN  IF position = <<>> THEN answer("LocationMissing")
           ELSE IF too_far(calculate_distance(position[1], position[2],
                                              COMPANY_LATITUDE, COMPANY_LONGITUDE))
                THEN answer("TooFar")
           ELSE IF image.kind = "none" THEN answer("ImageRequired")
           ELSE IF image.kind = "corrupt" THEN answer("UnexpectedError")
           ELSE IF image.faces = <<>> THEN answer("NoFaceDetected")
           ELSE IF idx = 0 THEN answer("NoMatch")
           ELSE req' = [req EXCEPT ![p] =
                           [r EXCEPT !.pc = "load_names",
                                     !.known_face_encodings =
                                         known_face_encodings_cache,
                                     !.idx = idx]]
    /\ UNCHANGED <<config, store, gallery, now, adm>>

\* The read of known_face_names_cache and known_face_names[idx].
AttLoadNames(p) ==
    /\ req[p].pc = "load_names"
    /\ IF req[p].idx > Len(known_face_names_cache)
       THEN Respond(p, "UnexpectedError")
       ELSE req' = [req EXCEPT ![p].pc = "resolve",
                               ![p].known_face_encodings = <<>>,
                               ![p].idx = 0,
                               ![p].matched_name =
                                   known_face_names_cache[req[p].idx]]
    /\ UNCHANGED <<config, store, gallery, now, adm>>

\* The name of the matched entry is looked up in the store
\* (find_employee_by_name / Employee.query.filter_by), then the clock is
\* read for `today` and `cambodia_now`.
AttResolve(p) ==
    /\ req[p].pc = "resolve"
    /\ LET matched == find_employee_by_name(req[p].matched_name)
       IN  IF matched = {} THEN Respond(p, "NoMatch")
           ELSE LET matched_employee == CHOOSE e \in matched : TRUE
                IN  req' = [req EXCEPT ![p].pc = "lookup",
                                       ![p].eid = matched_employee.id,
                                       ![p].cambodia_now = now]
    /\ UNCHANGED <<config, store, gallery, now, adm>>

\* A lookup step whose rejection of a second check_in restarts the open
\* record at the time of the request.
AttLookupRestarts(p) ==
    /\ req[p].pc = "lookup"
    /\ LET today == Day(req[p].cambodia_now)
       IN  IF /\ ~USE_FIRESTORE /\ DATABASE_URL = "sqlite"
              /\ req[p].action \in {"check_in", "check_out"}
           THEN Respond(p, "UnexpectedError") /\ UNCHANGED attendances
           ELSE LET open == open_attends(req[p].eid, today)
                IN  CASE req[p].action = "check_in" ->
                            IF open # {}
                            THEN /\ Respond(p, "AlreadyCheckedIn")
                                 /\ attendances' =
                                       {IF a \in open
                                        THEN [a EXCEPT !.check_in =
                                                 isoformat(req[p].cambodia_now + 1)]
                                        ELSE a : a \in attendances}
                            ELSE /\ req' = [req EXCEPT ![p].pc = "add"]
                                 /\ UNCHANGED attendances
                      [] req[p].action = "check_out" ->
                            /\ UNCHANGED attendances
                            /\ IF open = {} THEN Respond(p, "NoActiveCheckIn")
                               ELSE \E a \in most_recent(open) :
                                       req' = [req EXCEPT ![p].pc = "update",
                                                          ![p].to_close = a.id]
                      [] OTHER -> Respond(p, "InvalidAction") /\ UNCHANGED attendances
    /\ UNCHANGED <<config, employees, emp_ids_used, next_att_id, gallery, now, adm>>

\* The query for the employee's open records of `today` and the decision
\* on the action.  On SQLite the query of the SQL branch is a syntax error.
AttLookup(p) ==
    /\ req[p].pc = "lookup"
    /\ LET today == Day(req[p].cambodia_now)
       IN  IF /\ ~USE_FIRESTORE /\ DATABASE_URL = "sqlite"
              /\ req[p].action \in {"check_in", "check_out"}
           THEN Respond(p, "UnexpectedError")
           ELSE LET open == open_attends(req[p].eid, today)
                IN  CASE req[p].action = "check_in" ->
                            IF open # {} THEN Respond(p, "AlreadyCheckedIn")
                            ELSE req' = [req EXCEPT ![p].pc = "add"]
                      [] req[p].action = "check_out" ->
                            IF open = {} THEN Respond(p, "NoActiveCheckIn")
                            ELSE \E a \in most_recent(open) :
                                    req' = [req EXCEPT ![p].pc = "update",
                                                       ![p].to_close = a.id]
                      [] OTHER -> Respond(p, "InvalidAction")
    /\ UNCHANGED <<config, store, gallery, now, adm>>

\* firestore_db.add_attendance / db.session.add(att); commit().  The SQL
\* table has a foreign key on employees.
AttAdd(p) ==
    /\ req[p].pc = "add"
    /\ IF ~USE_FIRESTORE /\ get_employee_by_id(req[p].eid) = {}
       THEN /\ Respond(p, "UnexpectedError")
            /\ UNCHANGED <<attendances, next_att_id>>
       ELSE /\ attendances' = attendances \cup
                   {add_attendance(next_att_id, req[p].eid,
                                   isoformat(req[p].cambodia_now), <<>>,
                                   check_in_status(req[p].cambodia_now))}
            /\ next_att_id' = next_att_id + 1
            /\ Respond(p, "CheckedIn")
    /\ UNCHANGED <<config, employees, emp_ids_used, gallery, now, adm>>

\* firestore_db.update_attendance / att_to_close.check_out = ...; commit().
\* Updating a document or row that is gone raises.
AttUpdate(p) ==
    /\ req[p].pc = "update"
    /\ IF \E a \in attendances : a.id = req[p].to_close
       THEN /\ attendances' = update_attendance(req[p].to_close,
                                                isoformat(req[p].cambodia_now))
            /\ Respond(p, "CheckedOut")
       ELSE /\ Respond(p, "UnexpectedError")
            /\ UNCHANGED attendances
    /\ UNCHANGED <<config, employees, emp_ids_used, next_att_id, gallery, now, adm>>

\* The response is sent and the thread is free for the next request.
AttReturn(p) ==
    /\ req[p].pc = "done"
    /\ req' = [req EXCEPT ![p] = ReqIdle]
    /\ UNCHANGED <<config, store, gallery, now, adm>>

\* The local clock advances to a later instant.
Tick ==
    /\ \E t \in (now + 1)..MaxNow : now' = t
    /\ UNCHANGED <<config, store, gallery, req, adm>>

(* ------------------------------ gallery -------------------------------- *)
\* load_known_faces over the employees a query returns: the decoded
\* encodings and the names, in the order of the query; a document without
\* an encoding is skipped.
load_known_faces(emps) ==
    LET docs == SelectSeq(SeqById(emps), LAMBDA e : e.face_encoding # <<>>)
    IN  <<[i \in 1..Len(docs) |-> DecodeStored(docs[i].face_encoding)],
          [i \in 1..Len(docs) |-> docs[i].name]>>

(* ----------- /register, /admin/add_employee, edit, delete -------------- *)
\* `failed` tells that a call of the persistence layer has raised during the
\* request, `before` is what the request found when it began to mutate.
AdmIdle ==
    [pc |-> "idle", op |-> "", id |-> 0, name |-> "", enc |-> <<>>,
     names |-> <<>>, failed |-> FALSE, before |-> <<>>, res |-> ""]

\* The employees, the attendance records and the gallery.
Snapshot ==
    <<employees, attendances, known_face_encodings_cache, known_face_names_cache>>

\* The response of a request `op` for employee `id` (0: none) named `name`.
AdmRespond(op, id, name, res) ==
    adm' = [AdmIdle EXCEPT !.pc = "done", !.op = op, !.id = id, !.name = name,
                           !.failed = adm.failed, !.before = adm.before,
                           !.res = res]

\* Ids a new employee document can get: any unused id (Firestore's random
\* document ids) or the next one (the SQL sequence).
NewEmployeeIds ==
    LET free == (1..MaxEmp) \ emp_ids_used
    IN  IF USE_FIRESTORE THEN free
        ELSE {i \in free : \A j \in free : i <= j}

\* firestore_db.create_employee / Employee(...): the new document.
create_employee(id, name, enc) ==
    [id |-> id, name |-> name, face_encoding |-> StoredEncoding(enc)]

\* The validations, the creation of the employee and the hand-over to the
\* gallery refresh, common to register() and add_employee_manual().
CreateAndReload(op, name, enc) ==
    \E id \in NewEmployeeIds :
        /\ employees' = employees \cup {create_employee(id, name, enc)}
        /\ emp_ids_used' = emp_ids_used \cup {id}
        /\ adm' = [AdmIdle EXCEPT !.pc = "reload", !.op = op, !.id = id,
                                  !.name = name, !.before = Snapshot]

\* POST /register or /admin/add_employee with valid fields, when the
\* creation of the employee raises (create_employee, or the SQL commit):
\* the handler's except clause answers the error.
CreateEmployeeFails(op, name) ==
    /\ adm.pc = "idle"
    /\ name # ""
    /\ (op = "add" \/ ~USE_FIRESTORE) => find_employee_by_name(name) = {}
    /\ adm' = [AdmIdle EXCEPT !.pc = "done", !.op = op, !.name = name,
                              !.failed = TRUE, !.before = Snapshot,
                              !.res = "UnexpectedError"]
    /\ UNCHANGED <<config, store, gallery, now, req>>

\* A registration that stores the employee before it has looked for a face
\* in the image.
RegisterStoresFirst(name, dob_valid, image) ==
    /\ adm.pc = "idle"
    /\ IF image.kind = "none"
       THEN AdmRespond("register", 0, name, "ImageRequired") /\ UNCHANGED <<employees, emp_ids_used>>
       ELSE IF name = ""
       THEN AdmRespond("register", 0, name, "FieldsRequired") /\ UNCHANGED <<employees, emp_ids_used>>
       ELSE IF ~USE_FIRESTORE /\ find_employee_by_name(name) # {}
       THEN AdmRespond("register", 0, name, "DuplicateName") /\ UNCHANGED <<employees, emp_ids_used>>
       ELSE IF ~dob_valid
       THEN AdmRespond("register", 0, name, "InvalidDate") /\ UNCHANGED <<employees, emp_ids_used>>
       ELSE IF image.kind = "corrupt" \/ image.faces = <<>>
       THEN \E id \in NewEmployeeIds :
               /\ employees' = employees \cup {create_employee(id, name, 0)}
               /\ emp_ids_used' = emp_ids_used \cup {id}
               /\ AdmRespond("register", 0, name, "NoFaceDetected")
       ELSE CreateAndReload("register", name, image.faces[1])
    /\ UNCHANGED <<config, attendances, next_att_id, gallery, now, req>>

\* POST /register up to the creation of the employee.
RegisterBegin(name, dob_valid, image) ==
    /\ adm.pc = "idle"
    /\ IF image.kind = "none"
       THEN AdmRespond("register", 0, name, "ImageRequired") /\ UNCHANGED <<employees, emp_ids_used>>
       ELSE IF name = ""
       THEN AdmRespond("register", 0, name, "FieldsRequired") /\ UNCHANGED <<employees, emp_ids_used>>
       ELSE IF ~USE_FIRESTORE /\ find_employee_by_name(name) # {}
       THEN AdmRespond("register", 0, name, "DuplicateName") /\ UNCHANGED <<employees, emp_ids_used>>
       ELSE IF ~dob_valid
       THEN AdmRespond("register", 0, name, "InvalidDate") /\ UNCHANGED <<employees, emp_ids_used>>
       ELSE IF image.kind = "corrupt" \/ image.faces = <<>>
       THEN AdmRespond("register", 0, name, "NoFaceDetected") /\ UNCHANGED <<employees, emp_ids_used>>
       ELSE CreateAndReload("register", name, image.faces[1])
    /\ UNCHANGED <<config, attendances, next_att_id, gallery, now, req>>

\* POST /admin/add_employee up to the creation of the employee.
AddEmployeeBegin(name, dob_valid, image) ==
    /\ adm.pc = "idle"
    /\ IF name = ""
       THEN AdmRespond("add", 0, name, "FieldsRequired") /\ UNCHANGED <<employees, emp_ids_used>>
       ELSE IF find_employee_by_name(name) # {}
       THEN AdmRespond("add", 0, name, "DuplicateName") /\ UNCHANGED <<employees, emp_ids_used>>
       ELSE IF ~dob_valid
       THEN AdmRespond("add", 0, name, "UnexpectedError") /\ UNCHANGED <<employees, emp_ids_used>>
       ELSE IF image.kind = "none"
       THEN AdmRespond("add", 0, name, "ImageRequired") /\ UNCHANGED <<employees, emp_ids_used>>
       ELSE IF image.kind = "corrupt"
       THEN AdmRespond("add", 0, name, "UnexpectedError") /\ UNCHANGED <<employees, emp_ids_used>>
       ELSE IF image.faces = <<>>
       THEN AdmRespond("add", 0, name, "NoFaceDetected") /\ UNCHANGED <<employees, emp_ids_used>>
       ELSE CreateAndReload("add", name, image.faces[1])
    /\ UNCHANGED <<config, attendances, next_att_id, gallery, now, req>>

\* An edit that replaces the stored encoding also when the image gave none.
EditedOrCleared(e, name, enc) ==
    [e EXCEPT !.name = name,
              !.face_encoding = StoredEncoding(IF enc = <<>> THEN 12 ELSE enc[1])]

\* The employee row with the pending changes of the SQL session applied.
Edited(e, name, enc) ==
    [e EXCEPT !.name = name,
              !.face_encoding = IF enc = <<>> THEN @ ELSE StoredEncoding(enc[1])]

\* The unique constraint on employees.name, for a row to be renamed.
NameTaken(id, name) == \E o \in employees : o.id # id /\ o.name = name

\* POST /admin/edit_employee/<id> up to the gallery refresh or the write.
EditEmployeeBegin(id, name, dob_valid, image) ==
    /\ adm.pc = "idle"
    /\ LET has_face == image.kind = "ok" /\ image.faces # <<>>
           enc == IF has_face THEN <<image.faces[1]>> ELSE <<>>
       IN  IF get_employee_by_id(id) = {} THEN AdmRespond("edit", id, name, "NotFound")
           ELSE IF ~dob_valid
           THEN AdmRespond("edit", id, name,
                           IF USE_FIRESTORE THEN "ServerError" ELSE "UnexpectedError")
           ELSE IF ~USE_FIRESTORE /\ image.kind = "corrupt"
           THEN AdmRespond("edit", id, name, "UnexpectedError")
           ELSE adm' = [AdmIdle EXCEPT !.pc = IF has_face THEN "reload" ELSE "update",
                                       !.op = "edit", !.id = id,
                                       !.name = name, !.enc = enc,
                                       !.before = Snapshot]
    /\ UNCHANGED <<config, store, gallery, now, req>>

\* firestore_db.delete_attendances_for_employee_name
delete_attendances_for_employee_name(employee_name) ==
    {a \in attendances : a.employee_name # employee_name}

\* POST /admin/delete_employee/<id>: the Firestore branch up to the deletion
\* of the records linked by name, the SQL branch up to its commit.
DeleteEmployeeBegin(id) ==
    /\ adm.pc = "idle"
    /\ IF get_employee_by_id(id) = {}
       THEN AdmRespond("delete", id, "", "NotFound") /\ UNCHANGED <<employees, attendances>>
       ELSE LET emp == CHOOSE e \in get_employee_by_id(id) : TRUE
            IN  IF USE_FIRESTORE
                THEN /\ attendances' = delete_attendances_for_employee_name(emp.name)
                     /\ UNCHANGED employees
                     /\ adm' = [AdmIdle EXCEPT !.pc = "del_emp", !.op = "delete",
                                               !.id = id, !.name = emp.name,
                                               !.before = Snapshot]
                ELSE /\ attendances' = {a \in attendances : a.employee_id # id}
                     /\ employees' = employees \ {emp}
                     /\ adm' = [AdmIdle EXCEPT !.pc = "reload", !.op = "delete",
                                               !.id = id, !.name = emp.name,
                                               !.before = Snapshot]
    /\ UNCHANGED <<config, emp_ids_used, next_att_id, gallery, now, req>>

\* firestore_db.delete_employee: the records linked by the document's name,
\* then the document.
AdmDeleteEmployee ==
    /\ adm.pc = "del_emp"
    /\ LET doc == get_employee_by_id(adm.id)
       IN  /\ attendances' =
                 {a \in attendances : \A e \in doc : e.name = "" \/ a.employee_name # e.name}
           /\ employees' = employees \ doc
    /\ adm' = [adm EXCEPT !.pc = "reload"]
    /\ UNCHANGED <<config, emp_ids_used, next_att_id, gallery, now, req>>

\* firestore_db.delete_employee raises: the handler's except clause answers
\* the error.
AdmDeleteEmployeeFails ==
    /\ adm.pc = "del_emp"
    /\ adm' = [adm EXCEPT !.pc = "done", !.failed = TRUE, !.res = "UnexpectedError"]
    /\ UNCHANGED <<config, store, gallery, now, req>>

\* reload_known_faces when the query for the employees raises:
\* load_known_faces catches the exception and returns two empty lists.
AdmReloadFails ==
    /\ adm.pc = "reload"
    /\ known_face_encodings_cache' = <<>>
    /\ adm' = [adm EXCEPT !.pc = "store_names", !.names = <<>>, !.failed = TRUE]
    /\ UNCHANGED <<config, store, known_face_names_cache, now, req>>

\* reload_known_faces, first half: load_known_faces() and the store of
\* known_face_encodings_cache.  In the SQL edit the query runs in the
\* session that holds the pending changes: it flushes them first, and a
\* violation of the unique constraint makes load_known_faces return two
\* empty lists.
AdmReload ==
    /\ adm.pc = "reload"
    /\ LET pending == ~USE_FIRESTORE /\ adm.op = "edit"
           failed == pending /\ NameTaken(adm.id, adm.name)
           view == IF pending
                   THEN {IF e.id = adm.id THEN Edited(e, adm.name, adm.enc) ELSE e :
                            e \in employees}
                   ELSE employees
           loaded == IF failed THEN <<(<<>>), (<<>>)>> ELSE load_known_faces(view)
       IN  /\ known_face_encodings_cache' = loaded[1]
           /\ adm' = [adm EXCEPT !.pc = "store_names", !.names = loaded[2],
                                 !.failed = failed]
    /\ UNCHANGED <<config, store, known_face_names_cache, now, req>>

\* reload_known_faces, second half: the store of known_face_names_cache.
AdmStoreNames ==
    /\ adm.pc = "store_names"
    /\ known_face_names_cache' = adm.names
    /\ IF adm.op = "edit"
       THEN adm' = [adm EXCEPT !.pc = "update", !.names = <<>>]
       ELSE AdmRespond(adm.op, adm.id, adm.name, "ok")
    /\ UNCHANGED <<config, store, known_face_encodings_cache, now, req>>

\* The write of the edit: firestore_db.update_employee, which raises for a
\* document that is gone, or the SQL commit, which fails when the flush
\* failed or the new name is taken.
AdmUpdate ==
    /\ adm.pc = "update"
    /\ LET doc == get_employee_by_id(adm.id)
           fails == doc = {} \/ (~USE_FIRESTORE /\ (adm.failed \/ NameTaken(adm.id, adm.name)))
       IN  IF fails
           THEN /\ AdmRespond("edit", adm.id, adm.name,
                               IF USE_FIRESTORE THEN "ServerError" ELSE "UnexpectedError")
                /\ UNCHANGED employees
           ELSE /\ employees' = {IF e.id = adm.id THEN Edited(e, adm.name, adm.enc) ELSE e :
                                    e \in employees}
                /\ AdmRespond("edit", adm.id, adm.name, "ok")
    /\ UNCHANGED <<config, emp_ids_used, attendances, next_att_id, gallery, now, req>>

\* The response is sent and the thread is free for the next request.
AdmReturn ==
    /\ adm.pc = "done"
    /\ adm' = AdmIdle
    /\ UNCHANGED <<config, store, gallery, now, req>>

(* --------------------------- specification ----------------------------- *)
\* A record written by a version that linked attendances by employee name
\* (the document layout the head of services/firestore_db.py describes).
LegacyRecord ==
    [id |-> 0, employee_id |-> 0, employee_name |-> "alice",
     check_in |-> isoformat(0), check_out |-> <<>>, check_in_status |-> "Early"]

\* The state after start-up with no employee yet: app.run(debug=True) or a
\* WSGI import; the Firestore backend, or the SQL backend on the default
\* SQLite file or on the PostgreSQL database of DATABASE_URL.  A Firestore
\* store may hold a record that is linked by name.
Init ==
    /\ USE_FIRESTORE \in BOOLEAN
    /\ DATABASE_URL \in (IF USE_FIRESTORE THEN {"sqlite"} ELSE {"sqlite", "postgresql"})
    /\ MAX_DISTANCE_METERS \in {0, 2000}
    /\ app_debug \in BOOLEAN
    /\ firebase_admin = FirebaseStarted(USE_FIRESTORE)
    /\ employees = {}
    /\ emp_ids_used = {}
    /\ attendances \in (IF USE_FIRESTORE THEN {{}, {LegacyRecord}} ELSE {{}})
    /\ next_att_id = 1
    /\ known_face_encodings_cache = <<>>
    /\ known_face_names_cache = <<>>
    /\ now = 0
    /\ req = [p \in AttSlots |-> ReqIdle]
    /\ adm = AdmIdle
    /\ scenario = 0

\* Every request, with every input, handled concurrently.
Next ==
    \/ /\ \E p \in AttSlots, action \in Actions, latitude \in Latitudes,
             longitude \in Longitudes, image \in ImageFields :
              AttendanceBegin(p, action, latitude, longitude, image)
       /\ UNCHANGED scenario
    \/ (\E p \in AttSlots : AttLoadNames(p)) /\ UNCHANGED scenario
    \/ (\E p \in AttSlots : AttResolve(p)) /\ UNCHANGED scenario
    \/ (\E p \in AttSlots : AttLookup(p)) /\ UNCHANGED scenario
    \/ (\E p \in AttSlots : AttAdd(p)) /\ UNCHANGED scenario
    \/ (\E p \in AttSlots : AttUpdate(p)) /\ UNCHANGED scenario
    \/ (\E p \in AttSlots : AttReturn(p)) /\ UNCHANGED scenario
    \/ /\ \E name \in Names \cup {""}, dob_valid \in BOOLEAN, image \in ImageFields :
              RegisterBegin(name, dob_valid, image)
       /\ UNCHANGED scenario
    \/ /\ \E name \in Names \cup {""}, dob_valid \in BOOLEAN, image \in ImageFields :
              AddEmployeeBegin(name, dob_valid, image)
       /\ UNCHANGED scenario
    \/ /\ \E id \in 1..MaxEmp, name \in Names, dob_valid \in BOOLEAN, image \in ImageFields :
              EditEmployeeBegin(id, name, dob_valid, image)
       /\ UNCHANGED scenario
    \/ (\E id \in 1..MaxEmp : DeleteEmployeeBegin(id)) /\ UNCHANGED scenario
    \/ AdmDeleteEmployee /\ UNCHANGED scenario
    \/ AdmReload /\ UNCHANGED scenario
    \/ AdmStoreNames /\ UNCHANGED scenario
    \/ AdmUpdate /\ UNCHANGED scenario
    \/ AdmReturn /\ UNCHANGED scenario
    \/ /\ \E op \in {"register", "add"}, name \in Names : CreateEmployeeFails(op, name)
       /\ UNCHANGED scenario
    \/ AdmDeleteEmployeeFails /\ UNCHANGED scenario
    \/ AdmReloadFails /\ UNCHANGED scenario
    \/ (\E sa \in ServiceAccounts : InitFirebase(sa)) /\ UNCHANGED scenario
    \/ (\E sa \in ServiceAccounts : InitializeFirebase(sa)) /\ UNCHANGED scenario
    \/ (\E key_file \in KeyFiles : InitFirebaseApp(key_file)) /\ UNCHANGED scenario
    \/ Tick /\ UNCHANGED scenario

Spec == Init /\ [][Next]_vars

(* ----------------------- narrower specifications ----------------------- *)
\* Each of the specifications below takes the steps of Next for a part of
\* the requests and of their inputs, so that TLC can visit all its states.

\* With the default MAX_DISTANCE_METERS.
InitDefault == Init /\ MAX_DISTANCE_METERS = 2000

\* Started by `python app.py`: app.run(debug=True).
InitMain == InitDefault /\ app_debug = TRUE

\* The instants just before 08:00 and just after 08:15 of each day.
CoarseClock == {t \in 0..MaxNow : TimeOfDay(t) \in {28799, 29701}}

OneFace(f) == [kind |-> "ok", faces |-> <<f>>]
NoImage == [kind |-> "none", faces |-> <<>>]
NoFace == [kind |-> "ok", faces |-> <<>>]
Corrupt == [kind |-> "corrupt", faces |-> <<>>]

AllIdle == adm.pc = "idle" /\ \A p \in AttSlots : req[p].pc = "idle"

\* SpecAttendance: one employee is registered, and her check_in and
\* check_out requests are handled by two threads at once.  A request takes
\* the lowest free thread.
NextAttendance ==
    \/ /\ \E p \in AttSlots, action \in {"check_in", "check_out"} :
              /\ \A q \in AttSlots : q < p => req[q].pc # "idle"
              /\ AttendanceBegin(p, action, <<0>>, <<0>>, OneFace(0))
       /\ UNCHANGED scenario
    \/ (\E p \in AttSlots : AttLoadNames(p)) /\ UNCHANGED scenario
    \/ (\E p \in AttSlots : AttResolve(p)) /\ UNCHANGED scenario
    \/ (\E p \in AttSlots : AttLookup(p)) /\ UNCHANGED scenario
    \/ (\E p \in AttSlots : AttAdd(p)) /\ UNCHANGED scenario
    \/ (\E p \in AttSlots : AttUpdate(p)) /\ UNCHANGED scenario
    \/ (\E p \in AttSlots : AttReturn(p)) /\ UNCHANGED scenario
    \/ emp_ids_used = {} /\ RegisterBegin("alice", TRUE, OneFace(0)) /\ UNCHANGED scenario
    \/ AdmReload /\ UNCHANGED scenario
    \/ AdmStoreNames /\ UNCHANGED scenario
    \/ AdmReturn /\ UNCHANGED scenario
    \/ Tick /\ now' \in CoarseClock /\ UNCHANGED scenario

SpecAttendance == InitMain /\ [][NextAttendance]_vars

\* Positions sent: none, the company's, and one beyond 2000 m.
AttPositions == {<<<<>>, <<>>>>, <<<<0>>, <<0>>>>, <<<<1799>>, <<0>>>>}

\* SpecOneAtATime: one employee is registered and deleted, and her
\* attendance requests are handled one request at a time.
NextOneAtATime ==
    \/ /\ AllIdle
       /\ \E action \in Actions, position \in AttPositions,
             image \in {NoImage, OneFace(0), OneFace(12)} :
              AttendanceBegin(1, action, position[1], position[2], image)
       /\ UNCHANGED scenario
    \/ AttLoadNames(1) /\ UNCHANGED scenario
    \/ AttResolve(1) /\ UNCHANGED scenario
    \/ AttLookup(1) /\ UNCHANGED scenario
    \/ AttAdd(1) /\ UNCHANGED scenario
    \/ AttUpdate(1) /\ UNCHANGED scenario
    \/ AttReturn(1) /\ UNCHANGED scenario
    \/ AllIdle /\ emp_ids_used = {} /\ RegisterBegin("alice", TRUE, OneFace(0)) /\ UNCHANGED scenario
    \/ AllIdle /\ (\E id \in 1..MaxEmp : DeleteEmployeeBegin(id)) /\ UNCHANGED scenario
    \/ AdmDeleteEmployee /\ UNCHANGED scenario
    \/ AdmReload /\ UNCHANGED scenario
    \/ AdmStoreNames /\ UNCHANGED scenario
    \/ AdmReturn /\ UNCHANGED scenario
    \/ Tick /\ UNCHANGED scenario

SpecOneAtATime == InitDefault /\ [][NextOneAtATime]_vars

\* SpecEmployees: the registration and admin requests, one at a time, with
\* no attendance request.
AdmImages == {NoImage, Corrupt, NoFace, OneFace(0), OneFace(12)}

NextEmployees ==
    \/ /\ \E name \in Names \cup {""}, dob_valid \in BOOLEAN, image \in AdmImages :
              RegisterBegin(name, dob_valid, image)
       /\ UNCHANGED scenario
    \/ /\ \E name \in Names \cup {""}, dob_valid \in BOOLEAN, image \in AdmImages :
              AddEmployeeBegin(name, dob_valid, image)
       /\ UNCHANGED scenario
    \/ /\ \E id \in 1..MaxEmp, name \in Names, dob_valid \in BOOLEAN, image \in AdmImages :
              EditEmployeeBegin(id, name, dob_valid, image)
       /\ UNCHANGED scenario
    \/ (\E id \in 1..MaxEmp : DeleteEmployeeBegin(id)) /\ UNCHANGED scenario
    \/ AdmDeleteEmployee /\ UNCHANGED scenario
    \/ AdmReload /\ UNCHANGED scenario
    \/ AdmStoreNames /\ UNCHANGED scenario
    \/ AdmUpdate /\ UNCHANGED scenario
    \/ AdmReturn /\ UNCHANGED scenario

SpecEmployees == InitMain /\ [][NextEmployees]_vars

\* SpecScenario: on a system with no employee and no record, one employee
\* is registered with a face, and then that face is sent with check_in,
\* check_in, check_out and check_out on one day, each request after the
\* response of the one before.  `scenario` counts the requests sent.
InitFresh == Init /\ attendances = {}

NextScenario ==
    \/ /\ AllIdle /\ scenario = 0
       /\ \E name \in Names, f \in Faces : RegisterBegin(name, TRUE, OneFace(f))
       /\ scenario' = 1
    \/ /\ AllIdle /\ scenario = 0
       /\ \E name \in Names, f \in Faces : AddEmployeeBegin(name, TRUE, OneFace(f))
       /\ scenario' = 1
    \/ /\ AllIdle /\ scenario \in 1..4
       /\ \E e \in employees :
              AttendanceBegin(1, IF scenario \in {1, 2} THEN "check_in" ELSE "check_out",
                              <<0>>, <<0>>, OneFace(DecodeStored(e.face_encoding)))
       /\ scenario' = scenario + 1
    \/ AttLoadNames(1) /\ UNCHANGED scenario
    \/ AttResolve(1) /\ UNCHANGED scenario
    \/ AttLookup(1) /\ UNCHANGED scenario
    \/ AttAdd(1) /\ UNCHANGED scenario
    \/ AttUpdate(1) /\ UNCHANGED scenario
    \/ AttReturn(1) /\ UNCHANGED scenario
    \/ AdmReload /\ UNCHANGED scenario
    \/ AdmStoreNames /\ UNCHANGED scenario
    \/ AdmReturn /\ UNCHANGED scenario
    \/ Tick /\ (scenario <= 1 \/ Day(now') = Day(now)) /\ UNCHANGED scenario

SpecScenario == InitFresh /\ [][NextScenario]_vars

\* SpecGeofence: one employee is registered; attendance requests with every
\* action, position and kind of image are handled one at a time, under
\* every configuration.
NextGeofence ==
    \/ /\ AllIdle
       /\ \E action \in Actions, latitude \in Latitudes, longitude \in Longitudes,
             image \in {NoImage, Corrupt, NoFace, OneFace(0), OneFace(12)} :
              AttendanceBegin(1, action, latitude, longitude, image)
       /\ UNCHANGED scenario
    \/ AttLoadNames(1) /\ UNCHANGED scenario
    \/ AttResolve(1) /\ UNCHANGED scenario
    \/ AttLookup(1) /\ UNCHANGED scenario
    \/ AttAdd(1) /\ UNCHANGED scenario
    \/ AttUpdate(1) /\ UNCHANGED scenario
    \/ AttReturn(1) /\ UNCHANGED scenario
    \/ AllIdle /\ emp_ids_used = {} /\ RegisterBegin("alice", TRUE, OneFace(0)) /\ UNCHANGED scenario
    \/ AdmReload /\ UNCHANGED scenario
    \/ AdmStoreNames /\ UNCHANGED scenario
    \/ AdmReturn /\ UNCHANGED scenario

SpecGeofence == Init /\ [][NextGeofence]_vars

\* SpecGeofenceMain: the same requests to a server started by
\* `python app.py` with nothing configured.
SpecGeofenceMain == InitMain /\ [][NextGeofence]_vars

\* SpecMatch: employees are registered with any name and face; captures
\* with one or two faces are sent with check_in from the company's
\* position, one request at a time.
NextMatch ==
    \/ /\ AllIdle
       /\ \E faces \in Images :
              AttendanceBegin(1, "check_in", <<0>>, <<0>>, [kind |-> "ok", faces |-> faces])
       /\ UNCHANGED scenario
    \/ AttLoadNames(1) /\ UNCHANGED scenario
    \/ AttResolve(1) /\ UNCHANGED scenario
    \/ AttLookup(1) /\ UNCHANGED scenario
    \/ AttAdd(1) /\ UNCHANGED scenario
    \/ AttReturn(1) /\ UNCHANGED scenario
    \/ /\ AllIdle
       /\ \E name \in Names, f \in Faces : RegisterBegin(name, TRUE, OneFace(f))
       /\ UNCHANGED scenario
    \/ AdmReload /\ UNCHANGED scenario
    \/ AdmStoreNames /\ UNCHANGED scenario
    \/ AdmReturn /\ UNCHANGED scenario

SpecMatch == InitMain /\ [][NextMatch]_vars

\* SpecFailures: employees are registered and deleted, one request at a
\* time, and any call of the persistence layer may raise.
NextFailures ==
    \/ /\ \E name \in Names \cup {""}, dob_valid \in BOOLEAN, image \in AdmImages :
              RegisterBegin(name, dob_valid, image)
       /\ UNCHANGED scenario
    \/ /\ \E name \in Names \cup {""}, dob_valid \in BOOLEAN, image \in AdmImages :
              AddEmployeeBegin(name, dob_valid, image)
       /\ UNCHANGED scenario
    \/ (\E id \in 1..MaxEmp : DeleteEmployeeBegin(id)) /\ UNCHANGED scenario
    \/ AdmDeleteEmployee /\ UNCHANGED scenario
    \/ AdmReload /\ UNCHANGED scenario
    \/ AdmStoreNames /\ UNCHANGED scenario
    \/ AdmReturn /\ UNCHANGED scenario
    \/ /\ \E op \in {"register", "add"}, name \in Names : CreateEmployeeFails(op, name)
       /\ UNCHANGED scenario
    \/ AdmDeleteEmployeeFails /\ UNCHANGED scenario
    \/ AdmReloadFails /\ UNCHANGED scenario

SpecFailures == InitMain /\ [][NextFailures]_vars

\* SpecEdit: one employee is registered and edited, and captures with the
\* old and with the new face check in, one request at a time.
NextEdit ==
    \/ /\ AllIdle
       /\ \E f \in {0, 12} :
              AttendanceBegin(1, "check_in", <<0>>, <<0>>, OneFace(f))
       /\ UNCHANGED scenario
    \/ AttLoadNames(1) /\ UNCHANGED scenario
    \/ AttResolve(1) /\ UNCHANGED scenario
    \/ AttLookup(1) /\ UNCHANGED scenario
    \/ AttAdd(1) /\ UNCHANGED scenario
    \/ AttReturn(1) /\ UNCHANGED scenario
    \/ /\ AllIdle /\ employees = {}
       /\ RegisterBegin("alice", TRUE, OneFace(0))
       /\ UNCHANGED scenario
    \/ /\ AllIdle
       /\ \E id \in 1..MaxEmp, name \in Names, image \in {NoImage, OneFace(0), OneFace(12)} :
              EditEmployeeBegin(id, name, TRUE, image)
       /\ UNCHANGED scenario
    \/ AdmReload /\ UNCHANGED scenario
    \/ AdmStoreNames /\ UNCHANGED scenario
    \/ AdmUpdate /\ UNCHANGED scenario
    \/ AdmReturn /\ UNCHANGED scenario

SpecEdit == InitMain /\ [][NextEdit]_vars

\* SpecBackends: a sequence of up to three requests (register, check_in,
\* check_out, delete, all for alice) runs on one backend from an empty
\* store; the application is then started on the other backend with an
\* empty store and the same sequence runs again.  `scenario` holds the
\* requests and the results of the first run and the results of the second.
Requests == {"register", "check_in", "check_out", "delete"}

\* What the two backends' stores have in common: the employees' names and
\* the attendance records with the name of their employee.
AbstractStore ==
    <<{e.name : e \in employees}, Cardinality(employees),
      {<<{e.name : e \in get_employee_by_id(a.employee_id)},
         a.check_in, a.check_out, a.check_in_status>> : a \in attendances}>>

\* The receipt of request r by the application.
Submit(r) ==
    CASE r = "register" -> RegisterBegin("alice", TRUE, OneFace(0))
      [] r = "delete" ->
            \E id \in (IF employees = {} THEN {1} ELSE {e.id : e \in employees}) :
                DeleteEmployeeBegin(id)
      [] OTHER -> AttendanceBegin(1, r, <<0>>, <<0>>, OneFace(0))

\* USE_FIRESTORE and DATABASE_URL are read from the environment at start-up:
\* the application starts on the other backend, with an empty store.
SwitchBackend ==
    /\ AllIdle
    /\ scenario.run = 1 /\ scenario.script # <<>>
    /\ USE_FIRESTORE' = ~USE_FIRESTORE
    /\ firebase_admin' = FirebaseStarted(~USE_FIRESTORE)
    /\ DATABASE_URL' \in (IF USE_FIRESTORE THEN {"sqlite", "postgresql"} ELSE {"sqlite"})
    /\ employees' = {} /\ emp_ids_used' = {}
    /\ attendances' = {} /\ next_att_id' = 1
    /\ known_face_encodings_cache' = <<>> /\ known_face_names_cache' = <<>>
    /\ scenario' = [scenario EXCEPT !.run = 2, !.store = AbstractStore]
    /\ UNCHANGED <<MAX_DISTANCE_METERS, app_debug, now, req, adm>>

\* The result of a request joins the results of the current run.
Logged(res) ==
    scenario' = IF scenario.run = 1
                THEN [scenario EXCEPT !.results = Append(@, res)]
                ELSE [scenario EXCEPT !.replayed = Append(@, res)]

InitBackends ==
    /\ USE_FIRESTORE \in BOOLEAN
    /\ DATABASE_URL \in (IF USE_FIRESTORE THEN {"sqlite"} ELSE {"sqlite", "postgresql"})
    /\ MAX_DISTANCE_METERS = 2000
    /\ app_debug = TRUE
    /\ firebase_admin = FirebaseStarted(USE_FIRESTORE)
    /\ employees = {} /\ emp_ids_used = {}
    /\ attendances = {} /\ next_att_id = 1
    /\ known_face_encodings_cache = <<>> /\ known_face_names_cache = <<>>
    /\ now = 0
    /\ req = [p \in AttSlots |-> ReqIdle]
    /\ adm = AdmIdle
    /\ scenario = [run |-> 1, script |-> <<>>, results |-> <<>>, store |-> <<>>,
                   replayed |-> <<>>]

NextBackends ==
    \/ /\ AllIdle /\ scenario.run = 1 /\ Len(scenario.script) < 3
       /\ \E r \in Requests :
              /\ Submit(r)
              /\ scenario' = [scenario EXCEPT !.script = Append(@, r)]
    \/ /\ AllIdle /\ scenario.run = 2
       /\ Len(scenario.replayed) < Len(scenario.script)
       /\ Submit(scenario.script[Len(scenario.replayed) + 1])
       /\ UNCHANGED scenario
    \/ SwitchBackend
    \/ AttLoadNames(1) /\ UNCHANGED scenario
    \/ AttResolve(1) /\ UNCHANGED scenario
    \/ AttLookup(1) /\ UNCHANGED scenario
    \/ AttAdd(1) /\ UNCHANGED scenario
    \/ AttUpdate(1) /\ UNCHANGED scenario
    \/ AttReturn(1) /\ Logged(req[1].res)
    \/ AdmDeleteEmployee /\ UNCHANGED scenario
    \/ AdmReload /\ UNCHANGED scenario
    \/ AdmStoreNames /\ UNCHANGED scenario
    \/ AdmReturn /\ Logged(adm.res)

SpecBackends == InitBackends /\ [][NextBackends]_vars

\* SpecEditNoFace: employees are registered with face 0 and edited, one
\* request at a time, with an image that shows no face or one that shows
\* face 12.
NextEditNoFace ==
    \/ /\ AllIdle
       /\ \E name \in Names : RegisterBegin(name, TRUE, OneFace(0))
       /\ UNCHANGED scenario
    \/ /\ AllIdle
       /\ \E id \in 1..MaxEmp, name \in Names, image \in {NoFace, OneFace(12)} :
              EditEmployeeBegin(id, name, TRUE, image)
       /\ UNCHANGED scenario
    \/ AdmReload /\ UNCHANGED scenario
    \/ AdmStoreNames /\ UNCHANGED scenario
    \/ AdmUpdate /\ UNCHANGED scenario
    \/ AdmReturn /\ UNCHANGED scenario

SpecEditNoFace == InitMain /\ [][NextEditNoFace]_vars

\* SpecFirebase: the three initialisation functions are called one after
\* the other, with every service account, from a process in which
\* firebase_admin has no app yet.
InitNoFirebase ==
    /\ USE_FIRESTORE = TRUE
    /\ DATABASE_URL = "sqlite"
    /\ MAX_DISTANCE_METERS = 2000
    /\ app_debug = TRUE
    /\ firebase_admin = [apps |-> FALSE, initialize_app |-> 0, raised |-> FALSE,
                         calls |-> <<>>]
    /\ employees = {} /\ emp_ids_used = {}
    /\ attendances = {} /\ next_att_id = 1
    /\ known_face_encodings_cache = <<>> /\ known_face_names_cache = <<>>
    /\ now = 0
    /\ req = [p \in AttSlots |-> ReqIdle]
    /\ adm = AdmIdle
    /\ scenario = 0

NextFirebase ==
    \/ (\E sa \in ServiceAccounts : InitFirebase(sa)) /\ UNCHANGED scenario
    \/ (\E sa \in ServiceAccounts : InitializeFirebase(sa)) /\ UNCHANGED scenario
    \/ (\E key_file \in KeyFiles : InitFirebaseApp(key_file)) /\ UNCHANGED scenario

SpecFirebase == InitNoFirebase /\ [][NextFirebase]_vars

(* ------------------------------ properties ----------------------------- *)
\* Attendance record a is a record of employee e: linked by the employee's
\* id or, for a record of an older version, by the employee's name.
RecordOf(a, e) == a.employee_id = e.id \/ a.employee_name = e.name

IsOpen(a) == a.check_out = <<>>

OpenRecordsOn(e, day) ==
    {a \in attendances : RecordOf(a, e) /\ IsOpen(a) /\ iso_date(a.check_in) = day}

OpenRecords(e) == {a \in attendances : RecordOf(a, e) /\ IsOpen(a)}

\* The employee a request resolved its matched name to.
MatchedEmployee(p) == get_employee_by_id(req[p].eid)

\* Thread p takes its lookup step for `action`, with a matched employee.
Resolves(p, action) ==
    /\ req[p].pc = "lookup"
    /\ req[p].action = action
    /\ req'[p] # req[p]
    /\ MatchedEmployee(p) # {}

\* C1: for every employee and every calendar day at most one attendance
\* record of that employee with a check-in on that day is open (has no
\* check-out), in every reachable state, requests handled at once included.
C1_OneOpenRecordPerDay ==
    \A e \in employees : \A day \in 0..Day(MaxNow) :
        Cardinality(OpenRecordsOn(e, day)) <= 1

\* C2: the lookup of an open record and the insert of a check_in are atomic
\* per employee and day: a check_in inserts its record only while the
\* employee has no open record for the day the request looked up, so of two
\* check_in requests handled at once at most one creates a record.
C2_InsertOnlyWithoutOpenRecord ==
    [][\A p \in AttSlots :
          (req[p].pc = "add" /\ req'[p].res = "CheckedIn")
              => \A e \in get_employee_by_id(req[p].eid) :
                     OpenRecordsOn(e, Day(req[p].cambodia_now)) = {}]_vars

\* C3: a check_in for an employee who has an open record for today fails
\* with AlreadyCheckedIn and leaves the attendance records as they are.
C3_SecondCheckInRejected ==
    [][\A p \in AttSlots :
          (/\ Resolves(p, "check_in")
           /\ \E e \in MatchedEmployee(p) : OpenRecordsOn(e, Day(req[p].cambodia_now)) # {})
              => /\ req'[p].pc = "done"
                 /\ req'[p].res = "AlreadyCheckedIn"
                 /\ attendances' = attendances]_vars

\* A second check_in was rejected while the first one's record is open.
C3_Rejected ==
    \E p \in AttSlots :
        /\ req[p].pc = "done" /\ req[p].res = "AlreadyCheckedIn"
        /\ \E a \in attendances : IsOpen(a) /\ a.employee_id # 0

\* C4: a check_out for an employee with no open record for today (no record
\* at all, or only closed ones) fails with NoActiveCheckIn and changes
\* neither the attendance records, nor the employees, nor the gallery.
C4_CheckOutWithoutOpenRecord ==
    [][\A p \in AttSlots :
          (/\ Resolves(p, "check_out")
           /\ \A e \in MatchedEmployee(p) : OpenRecordsOn(e, Day(req[p].cambodia_now)) = {})
              => /\ req'[p].pc = "done"
                 /\ req'[p].res = "NoActiveCheckIn"
                 /\ UNCHANGED <<employees, attendances, gallery>>]_vars

\* The gallery has an entry with this employee's name and encoding.
InGallery(e) ==
    \E i \in 1..Len(known_face_names_cache) :
        /\ i <= Len(known_face_encodings_cache)
        /\ known_face_names_cache[i] = e.name
        /\ known_face_encodings_cache[i] = DecodeStored(e.face_encoding)

\* C5: after a registration with a detectable face has returned, the gallery
\* has the employee's entry; the same face sent then with check_in,
\* check_in, check_out, check_out on one day gets success, AlreadyCheckedIn,
\* success and NoActiveCheckIn, in that order.
C5_EndToEnd ==
    /\ (scenario >= 1 /\ adm.pc = "done")
           => /\ adm.res = "ok"
              /\ \E e \in employees : e.name = adm.name /\ InGallery(e)
    /\ (scenario >= 2 /\ req[1].pc = "done")
           => req[1].res = <<"CheckedIn", "AlreadyCheckedIn",
                             "CheckedOut", "NoActiveCheckIn">>[scenario - 1]

\* C6: at most one attendance record of an employee is open, whatever the
\* days of the check-ins: a check_in never succeeds while a record of an
\* earlier day is open.
C6_OneOpenRecord ==
    \A e \in employees : Cardinality(OpenRecords(e)) <= 1

\* C7: when the deletion of an employee has returned with success, no
\* attendance record linked to that employee by id or by name is left.
C7_DeleteCascades ==
    (adm.pc = "done" /\ adm.op = "delete" /\ adm.res = "ok")
        => \A a \in attendances :
               a.employee_id # adm.id /\ a.employee_name # adm.name

\* C8: no two stored employees have the same name.
C8_NamesUnique ==
    \A e1, e2 \in employees : e1.name = e2.name => e1.id = e2.id

\* The number of gallery entries with this name and encoding.
GalleryCount(name, enc) ==
    Cardinality({i \in 1..Len(known_face_names_cache) :
                    /\ i <= Len(known_face_encodings_cache)
                    /\ known_face_names_cache[i] = name
                    /\ known_face_encodings_cache[i] = enc})

\* The gallery has exactly one entry per stored employee, with the
\* employee's current name and encoding.
GalleryIsStore ==
    /\ Len(known_face_names_cache) = Cardinality(employees)
    /\ Len(known_face_encodings_cache) = Cardinality(employees)
    /\ \A e \in employees :
           GalleryCount(e.name, DecodeStored(e.face_encoding)) =
               Cardinality({o \in employees :
                               /\ o.name = e.name
                               /\ o.face_encoding = e.face_encoding})

\* C9: when a registration, an add, an edit or a delete has returned with
\* success and no other request is in progress, the gallery is the list
\* of the stored employees.
C9_GalleryFollowsStore ==
    (adm.pc = "done" /\ adm.res = "ok" /\ \A p \in AttSlots : req[p].pc = "idle")
        => GalleryIsStore

\* C10: a match that runs while the gallery is refreshed reads an encodings
\* list and a names list of one refresh, which have one length.
C10_MatchReadsOneRefresh ==
    [][\A p \in AttSlots :
          (req[p].pc = "load_names" /\ req'[p] # req[p])
              => Len(req[p].known_face_encodings) = Len(known_face_names_cache)]_vars

\* The gallery entries within the tolerance of a probe.
Within(known, probe, tolerance) ==
    {i \in 1..Len(known) : Abs(known[i] - probe) <= tolerance}

\* C11: for a capture with one probe encoding, the matcher selects the first
\* gallery entry, in gallery order, that is within the tolerance of the
\* probe, also when a later entry is nearer.
C11_FirstEntryWins ==
    \A p \in AttSlots :
        (req[p].pc = "load_names" /\ Len(req[p].image.faces) = 1)
            => LET W == Within(req[p].known_face_encodings,
                               req[p].image.faces[1], Tolerance)
               IN  req[p].idx \in W /\ \A j \in W : req[p].idx <= j

\* A match selected an entry although a later entry is nearer to the probe.
C11_LaterEntryNearer ==
    \E p \in AttSlots :
        /\ req[p].pc = "load_names" /\ Len(req[p].image.faces) = 1
        /\ \E j \in (req[p].idx + 1)..Len(req[p].known_face_encodings) :
               Abs(req[p].known_face_encodings[j] - req[p].image.faces[1])
                   < Abs(req[p].known_face_encodings[req[p].idx]
                             - req[p].image.faces[1])

\* C12: the probes of a capture are matched in array order; the first probe
\* with an entry within the tolerance decides the entry, and the probes
\* after it are not consulted.
C12_FirstMatchingProbeDecides ==
    \A p \in AttSlots :
        req[p].pc = "load_names"
            => \E k \in 1..Len(req[p].image.faces) :
                  LET W(m) == Within(req[p].known_face_encodings,
                                     req[p].image.faces[m], Tolerance)
                  IN  /\ \A m \in 1..(k - 1) : W(m) = {}
                      /\ req[p].idx \in W(k)
                      /\ \A j \in W(k) : req[p].idx <= j

\* Both probes of a capture have a match, and the second probe's match is
\* not the selected entry.
C12_SecondProbeNotConsulted ==
    \E p \in AttSlots :
        /\ req[p].pc = "load_names" /\ Len(req[p].image.faces) = 2
        /\ LET W(m) == Within(req[p].known_face_encodings,
                              req[p].image.faces[m], Tolerance)
           IN  W(1) # {} /\ W(2) # {} /\ req[p].idx \notin W(2)

\* The tolerances a match is tried with.
Tolerances == 0..(Tolerance + 1)

\* C13 as stated: a probe identical to gallery entry k selects entry k, for
\* every gallery, every k and every tolerance >= 0.
C13_IdenticalProbeSelectsK ==
    \A tolerance \in Tolerances : \A k \in 1..Len(known_face_encodings_cache) :
        IndexOfTrue(compare_faces(known_face_encodings_cache,
                                  known_face_encodings_cache[k], tolerance)) = k

\* C13, amended: a probe identical to gallery entry k selects the first
\* entry within the tolerance of the probe; that entry is never after k, and
\* it is k exactly when no entry before k is within the tolerance of entry k.
C13_IdenticalProbeSelectsFirstWithin ==
    \A tolerance \in Tolerances : \A k \in 1..Len(known_face_encodings_cache) :
        LET G == known_face_encodings_cache
            r == IndexOfTrue(compare_faces(G, G[k], tolerance))
        IN  /\ r \in 1..k
            /\ Abs(G[r] - G[k]) <= tolerance
            /\ (r = k) <=> (\A j \in 1..(k - 1) : Abs(G[j] - G[k]) > tolerance)

\* The gallery has a look-alike before another entry.
C13_LookAlikeFirst ==
    /\ Len(known_face_encodings_cache) = 2
    /\ known_face_encodings_cache[1] # known_face_encodings_cache[2]
    /\ Abs(known_face_encodings_cache[1] - known_face_encodings_cache[2]) <= Tolerance

\* C14: when every probe of a capture is farther than the tolerance from
\* every gallery entry, the request ends with NoMatch at the match and no
\* attendance record is read or written.
C14_NoMatchWhenAllFar ==
    [][\A p \in AttSlots :
          (/\ req[p].pc = "idle" /\ req'[p].pc # "idle"
           /\ req'[p].res \notin {"LocationMissing", "TooFar"}
           /\ req'[p].image.kind = "ok" /\ req'[p].image.faces # <<>>
           /\ \A m \in 1..Len(req'[p].image.faces) :
                  Within(known_face_encodings_cache, req'[p].image.faces[m],
                         Tolerance) = {})
              => /\ req'[p].pc = "done"
                 /\ req'[p].res = "NoMatch"
                 /\ attendances' = attendances]_vars

\* A capture with faces got NoMatch from a gallery that is not empty.
C14_NoMatch ==
    \E p \in AttSlots :
        /\ req[p].pc = "done" /\ req[p].res = "NoMatch"
        /\ req[p].image.faces # <<>>
        /\ known_face_encodings_cache # <<>>
        /\ \A m \in 1..Len(req[p].image.faces) :
               Within(known_face_encodings_cache, req[p].image.faces[m],
                      Tolerance) = {}

\* C15: a check_in is classified from its local time of day: before
\* 08:00:00 Early, after 08:15:00 Late, otherwise OnTime, which the code
\* writes as 'Good'; so 07:59:59 is Early, 08:00:00 is OnTime, 08:15:01 is
\* Late, and every stored classification is one of the three.
C15_Classification ==
    \A a \in attendances :
        /\ a.check_in_status \in {"Early", "Good", "Late"}
        /\ a.check_in_status = "Early" <=> a.check_in[2] < 28800
        /\ a.check_in_status = "Late" <=> a.check_in[2] > 29700
        /\ a.check_in[2] = 28799 => a.check_in_status = "Early"
        /\ a.check_in[2] = 28800 => a.check_in_status = "Good"
        /\ a.check_in[2] = 29701 => a.check_in_status = "Late"

\* A check-in at 08:00:00 and one at 08:15:00 are stored as OnTime.
C15_OnTheBoundaries ==
    /\ \E a \in attendances : a.check_in[2] = 28800 /\ a.check_in_status = "Good"
    /\ \E a \in attendances : a.check_in[2] = 29700 /\ a.check_in_status = "Good"

\* Thread p receives a request.
Receives(p) == req[p].pc = "idle" /\ req'[p].pc # "idle"

\* C16: a request without latitude or without longitude is answered with
\* LocationMissing and changes nothing, unless the debug override is on,
\* and then it is handled as one sent from the company's position.
C16_MissingPosition ==
    [][\A p \in AttSlots :
          (Receives(p) /\ (req'[p].latitude = <<>> \/ req'[p].longitude = <<>>))
              => IF app_debug /\ DEBUG_USE_COMPANY_LOCATION
                 THEN req'[p].res \notin {"LocationMissing", "TooFar"}
                 ELSE /\ req'[p].pc = "done"
                      /\ req'[p].res = "LocationMissing"
                      /\ UNCHANGED <<store, gallery>>]_vars

\* A request with a latitude and no longitude was rejected.
C16_Rejected ==
    \E p \in AttSlots :
        /\ req[p].pc = "done" /\ req[p].res = "LocationMissing"
        /\ req[p].latitude # <<>> /\ req[p].longitude = <<>>

\* C17: on a server started with nothing configured, a request without a
\* position is rejected: the debug override is off by default.
C17_OverrideOffByDefault ==
    \A p \in AttSlots :
        (req[p].pc # "idle" /\ (req[p].latitude = <<>> \/ req[p].longitude = <<>>))
            => req[p].pc = "done" /\ req[p].res = "LocationMissing"

\* The position is farther from the company than MAX_DISTANCE_METERS: any
\* other position when the limit is 0, latitude 1799 when it is 2000.
FartherThanMax(latitude, longitude) ==
    \/ MAX_DISTANCE_METERS = 0 /\ <<latitude[1], longitude[1]>> # <<0, 0>>
    \/ MAX_DISTANCE_METERS = 2000 /\ latitude[1] = 1799

HasPosition(r) == r.latitude # <<>> /\ r.longitude # <<>>

\* C18: a request from a position farther than MAX_DISTANCE_METERS is
\* answered with TooFar whatever its action and its image, and changes
\* neither the stores nor the gallery.
C18_GeofenceFirst ==
    [][\A p \in AttSlots :
          (/\ Receives(p) /\ HasPosition(req'[p])
           /\ FartherThanMax(req'[p].latitude, req'[p].longitude))
              => /\ req'[p].pc = "done"
                 /\ req'[p].res = "TooFar"
                 /\ UNCHANGED <<store, gallery>>]_vars

\* A request with an undecodable image and an unknown action got TooFar.
C18_TooFarBeforeImage ==
    \E p \in AttSlots :
        /\ req[p].pc = "done" /\ req[p].res = "TooFar"
        /\ req[p].image.kind = "corrupt" /\ req[p].action = "bogus"

\* C19: the company's own position has distance 0 and passes the geofence
\* for every limit >= 0; a request is answered with TooFar exactly when
\* its distance is greater than the limit.
C19_GeofenceStrict ==
    [][\A p \in AttSlots :
          (Receives(p) /\ HasPosition(req'[p]))
              => /\ req'[p].res = "TooFar"
                     <=> FartherThanMax(req'[p].latitude, req'[p].longitude)
                 /\ <<req'[p].latitude, req'[p].longitude>> = <<(<<0>>), (<<0>>)>>
                        => req'[p].res # "TooFar"]_vars

\* With a limit of 0 a request from the company's position passed.
C19_PassedAtLimitZero ==
    \E p \in AttSlots :
        /\ MAX_DISTANCE_METERS = 0
        /\ req[p].pc # "idle" /\ req[p].res # "TooFar"
        /\ req[p].latitude = <<0>> /\ req[p].longitude = <<0>>

\* C20: once a record has a check-out, no step changes its check-in, its
\* check-out or its classification.
C20_ClosedRecordIsFinal ==
    [][\A a \in attendances : \A b \in attendances' :
          (a.id = b.id /\ a.check_out # <<>>) => b = a]_vars

\* C21: when a call of the persistence layer has raised during a
\* registration or a deletion, the request leaves the employees, the
\* attendance records and the gallery as it found them.
C21_FailureRestoresState ==
    (adm.pc = "done" /\ adm.failed) => Snapshot = adm.before

\* C22: every attendance request ends with a receipt or with one of the
\* typed errors TooFar, NoFaceDetected, NoMatch, AlreadyCheckedIn,
\* NoActiveCheckIn, never with an 'Unexpected error' response.
C22_TypedResults ==
    \A p \in AttSlots :
        req[p].pc = "done" =>
            req[p].res \in {"CheckedIn", "CheckedOut", "TooFar",
                      "NoFaceDetected", "NoMatch", "AlreadyCheckedIn",
                      "NoActiveCheckIn"}

\* The records of employee e with a check-in on `day`.
RecordsOn(e, day) ==
    {a \in attendances : RecordOf(a, e) /\ iso_date(a.check_in) = day}

\* Employee e has records for `day` and all of them are closed.
CheckedOutOn(e, day) ==
    RecordsOn(e, day) # {} /\ OpenRecordsOn(e, day) = {}

\* C23: a check_in for an employee whose records for today are all closed
\* is accepted; it creates one new open record of that employee and leaves
\* the records that were there unchanged.
C23_CheckInFromCheckedOut ==
    [][\A p \in AttSlots :
          /\ (/\ Resolves(p, "check_in")
              /\ \E e \in MatchedEmployee(p) : CheckedOutOn(e, Day(req[p].cambodia_now)))
                 => req'[p].pc = "add"
          /\ (/\ req[p].pc = "add" /\ req'[p].pc = "done"
              /\ \E e \in employees :
                    e.id = req[p].eid /\ CheckedOutOn(e, Day(req[p].cambodia_now)))
                 => /\ req'[p].res = "CheckedIn"
                    /\ attendances \subseteq attendances'
                    /\ \E a \in attendances' :
                          /\ attendances' \ attendances = {a}
                          /\ a.employee_id = req[p].eid
                          /\ IsOpen(a)
                          /\ iso_date(a.check_in) = Day(req[p].cambodia_now)]_vars

\* An employee checked in again on the day of a closed record.
C23_CheckedInAgain ==
    \E p \in AttSlots : \E a, b \in attendances :
        /\ req[p].pc = "done" /\ req[p].res = "CheckedIn"
        /\ a.employee_id # 0 /\ b.employee_id = a.employee_id
        /\ ~IsOpen(a) /\ IsOpen(b)
        /\ iso_date(a.check_in) = iso_date(b.check_in)

\* C24: a check_out that answers success closes exactly one record: a record
\* of the matched employee that was open, has its check-in today and has the
\* latest check-in among the employee's open records of today; every other
\* record is unchanged.
C24_ClosesTheMostRecent ==
    [][\A p \in AttSlots :
          (req[p].pc = "update" /\ req'[p].pc = "done" /\ req'[p].res = "CheckedOut")
             => \E a \in attendances : \E e \in employees :
                   /\ e.id = req[p].eid /\ RecordOf(a, e)
                   /\ a \in OpenRecordsOn(e, Day(req[p].cambodia_now))
                   /\ \A o \in OpenRecordsOn(e, Day(req[p].cambodia_now)) :
                         IsoLeq(o.check_in, a.check_in)
                   /\ attendances' = (attendances \ {a}) \cup
                         {[a EXCEPT !.check_out = isoformat(req[p].cambodia_now)]}]_vars

\* C25: a register or add_employee_manual request that answers an error has
\* answered in a single step that created no employee and left the gallery
\* unchanged.
C25_FailedRegistrationChangesNothing ==
    [][(/\ adm.pc # "done" /\ adm'.pc = "done"
        /\ adm'.op \in {"register", "add"}
        /\ adm'.res # "ok")
          => /\ adm.pc = "idle"
             /\ UNCHANGED <<employees, gallery>>]_vars

\* A registration was refused for the image or the date while another
\* employee was in the store and in the gallery.
C25_Refused ==
    /\ adm.pc = "done" /\ adm.op \in {"register", "add"}
    /\ adm.res \in {"NoFaceDetected", "InvalidDate"}
    /\ employees # {}
    /\ known_face_names_cache # <<>>

\* C26: the employee a request resolves to, and whose record it then
\* creates or closes, is an employee whose stored encoding matches a probe
\* of the capture: the lookup by the matched name does not lead to an
\* employee with another face.
C26_Attribution ==
    [][\A p \in AttSlots :
          (req[p].pc = "lookup" /\ req'[p].pc \in {"add", "update"})
             => \E e \in employees :
                   /\ e.id = req'[p].eid
                   /\ \E i \in 1..Len(req[p].image.faces) :
                         Within(<<DecodeStored(e.face_encoding)>>,
                                req[p].image.faces[i], Tolerance) # {}]_vars

\* C27: a request does not answer NoMatch while an employee in the store
\* has a stored encoding within the tolerance of a probe of the capture.
C27_NoMatchOnlyForStrangers ==
    [][\A p \in AttSlots :
          (req[p].pc # "done" /\ req'[p].pc = "done" /\ req'[p].res = "NoMatch")
             => ~ \E e \in employees : \E i \in 1..Len(req'[p].image.faces) :
                     Within(<<DecodeStored(e.face_encoding)>>,
                            req'[p].image.faces[i], Tolerance) # {}]_vars

\* An open record with a check-in date before the local date.
Stale(a) == IsOpen(a) /\ iso_date(a.check_in) < Day(now)

\* C28: check_out only considers the records with a check-in today: once
\* the local date has passed the check-in date of an open record, no step
\* changes or removes the record, except the steps of a request that
\* deletes an employee and the write of a check_out that looked the record
\* up on its check-in date.
C28_StaleRecordStaysOpen ==
    [][\A a \in attendances :
          Stale(a) =>
             \/ a \in attendances'
             \/ adm'.op = "delete"
             \/ \E p \in AttSlots :
                   /\ req[p].pc = "update" /\ req'[p].pc = "done"
                   /\ Day(req[p].cambodia_now) = iso_date(a.check_in)]_vars

\* A check_out on a later day was refused while the record of the day
\* before is open.
C28_LaterCheckOutRefused ==
    \E p \in AttSlots : \E a \in attendances :
        /\ req[p].pc = "done" /\ req[p].action = "check_out"
        /\ req[p].res = "NoActiveCheckIn"
        /\ a.employee_id # 0 /\ Stale(a)
        /\ get_employee_by_id(a.employee_id) # {}

\* C29: every step of an attendance request other than the one that answers
\* a receipt leaves the employees, the attendance records and the gallery
\* unchanged, so a request that ends in an error has changed none of them.
C29_ErrorsChangeNothing ==
    [][\A p \in AttSlots :
          (/\ req'[p] # req[p]
           /\ ~(req'[p].pc = "done" /\ req'[p].res \in {"CheckedIn", "CheckedOut"}))
             => UNCHANGED <<employees, attendances, gallery>>]_vars

\* A second check_in was refused while an employee, an open record and a
\* gallery entry are there to be changed.
C29_RefusedWithState ==
    \E p \in AttSlots :
        /\ req[p].pc = "done" /\ req[p].res = "AlreadyCheckedIn"
        /\ employees # {} /\ attendances # {} /\ known_face_names_cache # <<>>

\* C30: the Firestore backend and the SQL backend answer every request of a
\* sequence alike, and after the sequence their stores hold the same
\* employees and the same attendance records.
C30_BackendsAgree ==
    scenario.run = 2 =>
        /\ \A k \in 1..Len(scenario.replayed) :
              scenario.replayed[k] = scenario.results[k]
        /\ (AllIdle /\ Len(scenario.replayed) = Len(scenario.script))
              => AbstractStore = scenario.store

\* C31: a gallery refresh whose read of the employees fails leaves the
\* gallery as it was: no step replaces a non-empty gallery with an empty
\* one while the store holds employees.
C31_RefreshKeepsGallery ==
    [][(known_face_encodings_cache # <<>> /\ employees # {})
          => known_face_encodings_cache' # <<>>]_vars

\* C32: an edit whose new image shows no face goes to the write without a
\* gallery refresh; the write leaves the employee's stored encoding and the
\* gallery unchanged, and it stores the submitted name unless the SQL unique
\* constraint on the name refuses it.
C32_EditWithoutFace ==
    [][/\ (adm.pc = "idle" /\ adm'.op = "edit" /\ adm'.pc \notin {"idle", "done"}
           /\ adm'.enc = <<>>)
             => adm'.pc = "update" /\ UNCHANGED <<employees, gallery>>
       /\ (adm.pc = "update" /\ adm.op = "edit" /\ adm.enc = <<>> /\ adm'.pc = "done")
             => /\ UNCHANGED gallery
                /\ \A e \in employees :
                      e.id = adm.id =>
                         \E f \in employees' :
                            /\ f.id = e.id
                            /\ f.face_encoding = e.face_encoding
                            /\ (USE_FIRESTORE \/ ~NameTaken(adm.id, adm.name))
                                  => adm'.res = "ok" /\ f.name = adm.name]_vars

\* An employee registered with face 0 was renamed by an edit without a
\* face: she has the new name and the old encoding, and the gallery has
\* her entry under the old name.
C32_RenamedWithoutFace ==
    /\ adm.pc = "done" /\ adm.op = "edit" /\ adm.res = "ok"
    /\ \E e \in employees :
          /\ e.id = adm.id /\ e.name = adm.name
          /\ DecodeStored(e.face_encoding) = 0
          /\ known_face_encodings_cache = <<0>>
          /\ known_face_names_cache # <<e.name>>

\* C33: in every attendance record that has a check-out, the check-out is
\* not earlier than the check-in (the clock `now` never goes backwards).
C33_CheckOutAfterCheckIn ==
    \A a \in attendances : a.check_out # <<>> => IsoLeq(a.check_in, a.check_out)

\* C34: over every sequence of calls of initialize_firebase,
\* init_firebase_app and init_firebase, firebase_admin.initialize_app is
\* invoked at most once, and every call made when Firebase is initialised
\* reports success and does not invoke it.
C34_InitialisedOnce ==
    /\ firebase_admin.initialize_app <= 1
    /\ \A k \in 1..Len(firebase_admin.calls) :
          firebase_admin.calls[k].before
             => /\ firebase_admin.calls[k].res \in {"True", "None"}
                /\ ~firebase_admin.calls[k].invoked

\* A call initialised Firebase, and two calls of the other two functions
\* followed it.
C34_CalledAgain ==
    /\ Len(firebase_admin.calls) = 3
    /\ firebase_admin.calls[1].invoked
    /\ {firebase_admin.calls[k].fn : k \in 1..3}
          = {"initialize_firebase", "init_firebase_app", "init_firebase"}

====
